---- MODULE Spec2Model ----
(***************************************************************************)
(* Model of spotify.py: SpotifyHandler (make_call, get_resource,           *)
(* get_songs_and_lan, empty_playlist, update_playlist, create_playlist)    *)
(* and the orchestrator process().                                         *)
(*                                                                         *)
(* The remote services are part of the state: the user's saved tracks are  *)
(* the URIs 1..saved, the lyrics service answers lookup[uri], and the      *)
(* user's playlists are the sequence playlists, a playlist's id being its  *)
(* index.  Every HTTP request is one step whose outcome is chosen among    *)
(* Outcomes: "ok", "status" (a non-200 answer with a JSON error body) and  *)
(* "raise" (a transport error).                                            *)
(***************************************************************************)
EXTENDS Integers, Sequences, FiniteSets, TLC

VARIABLES
    mode,        \* the function at the root of the call stack
    pc,          \* position of the running code
    err,         \* the exception that left the root function, or "none"
    fails,       \* number of requests that have failed so far
    saved,       \* remote: number of saved tracks (their URIs are 1..saved)
    playlists,   \* remote: the user's playlists, id = index
    endpoint,    \* get_resource: the collection being fetched
    total,       \* get_resource: total reported by the initial request
    page,        \* get_resource: loop variable
    items,       \* get_resource: accumulated items
    pageReqs,    \* get_resource: the page requests issued
    plName,      \* create_playlist: argument name
    plId,        \* create_playlist / update_playlist: playlist_id
    songs,       \* create_playlist / update_playlist: argument songs
    chunk,       \* create_playlist / update_playlist: loop variable i
    reqs,        \* the mutation requests issued (create, add, remove), each
                 \* with the label process() was reconciling when it was sent
    lookup,      \* remote: the lyrics service's answer for each saved track
    tracks,      \* get_songs_and_lan: the Song objects, by URI
    lan,         \* get_songs_and_lan: Song.lan of each track, "None" at first
    futs,        \* get_songs_and_lan: the futures of the submitted lookups
    col,         \* get_songs_and_lan: number of results collected
    iters,       \* empty_playlist: iterations of the loop still to run
    fetched,     \* empty_playlist: the URIs of the page just fetched
    epTotal,     \* empty_playlist: the total read at entry, -1 before
    epGets,      \* empty_playlist: the page fetches issued inside the loop
    lan_songs_dict,  \* process: label -> URIs
    playlist_names,  \* process: playlist name -> playlist id
    todo,        \* process: the labels the for loop has not reached yet
    cur,         \* process: the loop variable lan
    ret          \* value returned by the root function, "none" before

ctlVars == <<mode, pc, err, fails, ret>>
remoteVars == <<saved, playlists, lookup>>
grVars == <<endpoint, total, page, items, pageReqs>>
mutVars == <<plName, plId, songs, chunk>>
enVars == <<tracks, lan, futs, col>>
epVars == <<iters, fetched, epTotal, epGets>>
prVars == <<lan_songs_dict, playlist_names, todo, cur>>

vars == <<ctlVars, remoteVars, grVars, mutVars, enVars, epVars, prVars, reqs>>

\* ---------------------------------------------------------------- bounds
MaxTotal == 130
MaxUris == 215
MaxTracks == 3
MaxFillers == 60
MaxPoolTracks == 4
MaxMembers == 120
MaxFails == 2

\* ------------------------------------------------------ program constants
PageLimit == 50
AddLimit == 90
RemoveLimit == 50
MaxWorkers == 3

\* ---------------------------------------------------------------- helpers
Min(a, b) == IF a < b THEN a ELSE b
Max(a, b) == IF a < b THEN b ELSE a

CeilDiv(n, d) == (n + d - 1) \div d

\* Python 3 round() of the quotient n/d: to nearest, ties to the even integer.
PyRoundUp(n, d) == CeilDiv(n, d)
PyRound(n, d) ==
    LET q == n \div d
        r == n % d
    IN  IF 2 * r < d THEN q
        ELSE IF 2 * r > d THEN q + 1
        ELSE IF q % 2 = 0 THEN q ELSE q + 1

\* range(round(total / 50) or 1)
PageCount(n) == IF PyRound(n, PageLimit) = 0 THEN 1 ELSE PyRound(n, PageLimit)

\* The outcomes a request can have; failures are capped by MaxFails.
Outcomes == IF fails < MaxFails THEN {"ok", "status", "raise"} ELSE {"ok"}

Failed(o) == IF o = "ok" THEN 0 ELSE 1

\* The exception make_call's caller sees: make_call itself raises
\* UnboundLocalError after a transport error (response was never bound); an error
\* body lacks the key the caller subscripts.
Exc(o) == IF o = "raise" THEN "UnboundLocalError" ELSE "KeyError"

\* Remote: size of a collection and the slice a page request returns.
RemoteCount(ep) == IF ep = "tracks" THEN saved ELSE Len(playlists)

RemotePage(n, offset, limit) ==
    [k \in 1 .. Min(limit, Max(0, n - offset)) |-> offset + k]

\* ------------------------------------------------------------ get_resource
\* Where get_resource's caller continues.
GrCaller ==
    IF mode = "get_resource" THEN "returned"
    ELSE IF endpoint = "tracks" THEN "gs_build" ELSE "gp_build"

\* The except clause around a page request: log and go on with the loop.
PageFailureAborts == "raised"
PageFailurePc == "gr_page"

GrTotal ==
    /\ pc = "gr_total"
    /\ \E o \in Outcomes :
        /\ fails' = fails + Failed(o)
        /\ IF o = "ok"
           THEN /\ total' = RemoteCount(endpoint)
                /\ pc' = "gr_page"
                /\ err' = err
           ELSE /\ total' = total
                /\ pc' = "raised"
                /\ err' = Exc(o)
    /\ page' = 0
    /\ items' = <<>>
    /\ UNCHANGED <<mode, ret, remoteVars, endpoint, pageReqs, mutVars, enVars, reqs>>
    /\ UNCHANGED <<epVars, prVars>>

GrPage ==
    /\ pc = "gr_page"
    /\ page < PageCount(total)
    /\ \E o \in Outcomes :
        /\ fails' = fails + Failed(o)
        /\ pageReqs' = Append(pageReqs,
               [offset |-> page * PageLimit, limit |-> PageLimit, outcome |-> o])
        /\ items' = IF o = "ok"
                    THEN items \o RemotePage(RemoteCount(endpoint),
                                             page * PageLimit, PageLimit)
                    ELSE items
        /\ page' = page + 1
        /\ pc' = IF o = "ok" THEN "gr_page" ELSE PageFailurePc
    /\ UNCHANGED <<mode, err, ret, remoteVars, endpoint, total, mutVars, enVars,
                   reqs>>
    /\ UNCHANGED <<epVars, prVars>>

GrReturn ==
    /\ pc = "gr_page"
    /\ page >= PageCount(total)
    /\ pc' = GrCaller
    /\ UNCHANGED <<mode, err, fails, ret, remoteVars, grVars, mutVars, enVars,
                   reqs>>
    /\ UNCHANGED <<epVars, prVars>>

\* -------------------------------------------------------------- get_songs
\* The Song objects built from the fetched items; lan starts as None.
GetSongs ==
    /\ pc = "gs_build"
    /\ tracks' = items
    /\ lan' = [k \in 1 .. Len(items) |-> "None"]
    /\ futs' = <<>>
    /\ col' = 0
    /\ pc' = "en_submit"
    /\ UNCHANGED <<mode, err, fails, ret, remoteVars, grVars, mutVars, reqs>>
    /\ UNCHANGED <<epVars, prVars>>

\* ------------------------------------------------------ get_songs_and_lan
\* The answers the lyrics service can give to a lookup: a language, no hits,
\* a null language, a hit without the language key, a body that is no JSON,
\* or no answer at all (a network error).
Languages == {"en", "pl"}
LookupOutcomes == Languages \cup {"nohits", "null", "nokey", "badjson", "neterr"}

Running == {k \in 1 .. Len(futs) : futs[k].st = "running"}

\* session.get(...): the lookup is queued on the executor and its future
\* becomes track.lan.
EnSubmit ==
    /\ pc = "en_submit"
    /\ Len(futs) < Len(tracks)
    /\ futs' = Append(futs, [st |-> "queued", resp |-> "none"])
    /\ UNCHANGED <<ctlVars, remoteVars, grVars, mutVars, tracks, lan, col, reqs>>
    /\ UNCHANGED <<epVars, prVars>>

\* FuturesSession(max_workers=3): a lookup starts only on a free worker.
PoolAlwaysFree == TRUE
PoolHasFreeWorker == Cardinality(Running) < MaxWorkers

\* A pool worker takes the oldest queued lookup; the pool has 3 workers.
WorkerStart ==
    /\ pc = "en_submit"
    /\ PoolHasFreeWorker
    /\ \E k \in 1 .. Len(futs) :
        /\ futs[k].st = "queued"
        /\ \A j \in 1 .. k - 1 : futs[j].st # "queued"
        /\ futs' = [futs EXCEPT ![k].st = "running"]
    /\ UNCHANGED <<ctlVars, remoteVars, grVars, mutVars, tracks, lan, col, reqs>>
    /\ UNCHANGED <<epVars, prVars>>

\* The track whose answer the k-th future receives: the URL is built from
\* track.name and track.artist when the lookup is submitted.
FutureTrackLateBound(k) == tracks[Len(futs)]
FutureTrack(k) == tracks[k]

\* A running lookup completes, in any order, with the service's answer.
WorkerFinish ==
    /\ pc = "en_submit"
    /\ \E k \in Running :
        futs' = [futs EXCEPT ![k] = [st |-> "done",
                                     resp |-> lookup[FutureTrack(k)]]]
    /\ UNCHANGED <<ctlVars, remoteVars, grVars, mutVars, tracks, lan, col, reqs>>
    /\ UNCHANGED <<epVars, prVars>>

\* Leaving the with block closes the session, which waits for every lookup.
SessionExit ==
    /\ pc = "en_submit"
    /\ Len(futs) = Len(tracks)
    /\ \A k \in 1 .. Len(futs) : futs[k].st = "done"
    /\ pc' = "en_collect"
    /\ UNCHANGED <<mode, err, fails, ret, remoteVars, grVars, mutVars, enVars,
                   reqs>>
    /\ UNCHANGED <<epVars, prVars>>

\* track.lan.result().json()["response"]["hits"][0]["result"]["language"] with
\* its None test and its except (KeyError, IndexError): the label, or the
\* exception that is not caught.
LabelOf(r) ==
    IF r \in Languages THEN r
    ELSE IF r \in {"nohits", "null", "nokey"} THEN "unidentified"
    ELSE IF r = "neterr" THEN "ConnectionError"
    ELSE "JSONDecodeError"

Exceptions ==
    {"UnboundLocalError", "KeyError", "AttributeError", "ConnectionError",
     "JSONDecodeError"}

EnCollect ==
    /\ pc = "en_collect"
    /\ col < Len(tracks)
    /\ LET l == LabelOf(futs[col + 1].resp)
       IN  IF l \in Exceptions
           THEN pc' = "raised" /\ err' = l /\ UNCHANGED <<lan, col>>
           ELSE /\ lan' = [lan EXCEPT ![col + 1] = l]
                /\ col' = col + 1
                /\ UNCHANGED <<pc, err>>
    /\ UNCHANGED <<mode, fails, ret, remoteVars, grVars, mutVars, tracks, futs,
                   reqs>>
    /\ UNCHANGED <<epVars, prVars>>

EnCaller == IF mode = "process" THEN "p_group" ELSE "returned"

EnReturn ==
    /\ pc = "en_collect"
    /\ col = Len(tracks)
    /\ pc' = EnCaller
    /\ UNCHANGED <<mode, err, fails, ret, remoteVars, grVars, mutVars, enVars,
                   reqs>>
    /\ UNCHANGED <<epVars, prVars>>

\* ------------------------------------------------------- remote effects
\* songs[i * 90 : (i + 1) * 90]
Slice(sq, i) == SubSeq(sq, i * AddLimit + 1, Min(Len(sq), (i + 1) * AddLimit))

\* The playlists after an accepted "add tracks" request: the URIs are inserted
\* at the position the body gives, at the end when it gives none.
AddTracks(pls, id, body) ==
    LET m == pls[id].members
        p == IF "position" \in DOMAIN body THEN Min(body.position, Len(m))
             ELSE Len(m)
    IN  [pls EXCEPT ![id].members =
             SubSeq(m, 1, p) \o body.uris \o SubSeq(m, p + 1, Len(m))]

\* The playlists after an accepted "create playlist" request; the new id is
\* the new length.
CreateRemote(pls, name) == Append(pls, [name |-> name, members |-> <<>>])

\* Where the caller of a Batch Mutator function continues.
MutCaller == IF mode = "process" THEN "p_loop" ELSE "returned"

\* ---------------------------------------------------------- empty_playlist
Range(sq) == {sq[k] : k \in 1 .. Len(sq)}

\* The playlists after an accepted "remove tracks" request: every occurrence
\* of a listed URI leaves the playlist.
RemoveFromAll(pls, id, body) ==
    LET Keep(u) == u \notin Range(body.tracks)
    IN  [i \in 1 .. Len(pls) |->
            [pls[i] EXCEPT !.members = SelectSeq(pls[i].members, Keep)]]
RemoveTracks(pls, id, body) ==
    LET Keep(u) == u \notin Range(body.tracks)
    IN  [pls EXCEPT ![id].members = SelectSeq(pls[id].members, Keep)]

\* Where empty_playlist's caller continues.
EpCaller == IF mode = "process" THEN "up_loop" ELSE "returned"

\* range(math.ceil(total / 50)), total read once by the first request.
EpIterationsRounded(t) == PyRound(t, RemoveLimit)
EpIterations(t) == CeilDiv(t, RemoveLimit)

\* The first page of a playlist's current members, at most 50 of them.
FirstPage(m) == SubSeq(m, 1, Min(RemoveLimit, Len(m)))

EpTotal ==
    /\ pc = "ep_total"
    /\ \E o \in Outcomes :
        /\ fails' = fails + Failed(o)
        /\ IF o = "ok"
           THEN /\ epTotal' = Len(playlists[plId].members)
                /\ iters' = EpIterations(epTotal')
                /\ pc' = "ep_loop"
                /\ err' = err
           ELSE /\ epTotal' = -1
                /\ iters' = iters
                /\ pc' = "raised"
                /\ err' = Exc(o)
    /\ fetched' = <<>>
    /\ epGets' = <<>>
    /\ UNCHANGED <<mode, ret, remoteVars, grVars, mutVars, enVars, prVars, reqs>>

\* One iteration starts by fetching the playlist's first page (limit 50), the
\* argument of the delete call; after the last iteration the function returns.
EpLoop ==
    /\ pc = "ep_loop"
    /\ IF iters > 0
       THEN \E o \in Outcomes :
              /\ fails' = fails + Failed(o)
              /\ IF o = "ok"
                 THEN /\ fetched' = FirstPage(playlists[plId].members)
                      /\ pc' = "ep_delete"
                      /\ err' = err
                 ELSE /\ fetched' = fetched
                      /\ pc' = "raised"
                      /\ err' = Exc(o)
              /\ epGets' = Append(epGets,
                     [id |-> plId, limit |-> RemoveLimit, outcome |-> o,
                      items |-> IF o = "ok" THEN fetched' ELSE <<>>])
              /\ UNCHANGED <<ret, chunk>>
       ELSE /\ pc' = EpCaller
            /\ chunk' = 0
            /\ ret' = IF pc' = "returned" THEN "None" ELSE ret
            /\ UNCHANGED <<err, fails, fetched, epGets>>
    /\ UNCHANGED <<mode, remoteVars, grVars, plName, plId, songs, enVars, iters,
                   epTotal, prVars, reqs>>

\* The removal request for exactly the fetched URIs; its answer is not read.
EpDelete ==
    /\ pc = "ep_delete"
    /\ \E o \in Outcomes :
        LET body == [tracks |-> fetched]
        IN  /\ fails' = fails + Failed(o)
            /\ reqs' = Append(reqs, [kind |-> "remove", id |-> plId,
                                     body |-> body, outcome |-> o,
                                     lan |-> cur])
            /\ playlists' = IF o = "ok" THEN RemoveTracks(playlists, plId, body)
                            ELSE playlists
            /\ IF o = "raise"
               THEN pc' = "raised" /\ err' = "UnboundLocalError"
                    /\ iters' = iters
               ELSE pc' = "ep_loop" /\ err' = err /\ iters' = iters - 1
    /\ UNCHANGED <<mode, ret, saved, lookup, grVars, mutVars, enVars, fetched,
                   epTotal, epGets, prVars>>

\* --------------------------------------------------------- update_playlist
\* What update_playlist does with make_call's answer: nothing, the loop goes on.
UpAfterAppend(o) == "next"

\* The body of the i-th append request of update_playlist.
UpBody(sq, i) == [uris |-> Slice(sq, i)]

UpLoop ==
    /\ pc = "up_loop"
    /\ IF chunk < CeilDiv(Len(songs), AddLimit)
       THEN \E o \in Outcomes :
              /\ fails' = fails + Failed(o)
              /\ reqs' = Append(reqs, [kind |-> "add", id |-> plId,
                                       body |-> UpBody(songs, chunk),
                                       outcome |-> o, lan |-> cur])
              /\ playlists' = IF o = "ok"
                              THEN AddTracks(playlists, plId, UpBody(songs, chunk))
                              ELSE playlists
              /\ IF o = "raise"
                 THEN pc' = "raised" /\ err' = "UnboundLocalError"
                      /\ chunk' = chunk
                 ELSE /\ err' = err
                      /\ IF UpAfterAppend(o) = "next"
                         THEN pc' = "up_loop" /\ chunk' = chunk + 1
                         ELSE pc' = MutCaller /\ chunk' = chunk
              /\ ret' = IF pc' = "returned" THEN "None" ELSE ret
       ELSE /\ pc' = MutCaller
            /\ ret' = IF pc' = "returned" THEN "None" ELSE ret
            /\ UNCHANGED <<err, fails, playlists, chunk, reqs>>
    /\ UNCHANGED <<mode, saved, lookup, grVars, plName, plId, songs, enVars>>
    /\ UNCHANGED <<epVars, prVars>>

\* --------------------------------------------------------- create_playlist
\* make_call(...).get("id"): the new id, or None from an error body.
CpCreate ==
    /\ pc = "cp_create"
    /\ \E o \in Outcomes :
        /\ fails' = fails + Failed(o)
        /\ reqs' = Append(reqs, [kind |-> "create", id |-> 0,
                                 body |-> [name |-> plName, public |-> FALSE],
                                 outcome |-> o, lan |-> cur])
        /\ IF o = "ok"
           THEN /\ playlists' = CreateRemote(playlists, plName)
                /\ plId' = Len(playlists) + 1
                /\ pc' = "cp_loop"
                /\ UNCHANGED <<err, ret>>
           ELSE IF o = "status"
           THEN /\ pc' = MutCaller
                /\ ret' = IF pc' = "returned" THEN "False" ELSE ret
                /\ UNCHANGED <<err, playlists, plId>>
           ELSE /\ pc' = "raised"
                /\ err' = "UnboundLocalError"
                /\ UNCHANGED <<ret, playlists, plId>>
    /\ chunk' = 0
    /\ UNCHANGED <<mode, saved, lookup, grVars, plName, songs, enVars>>
    /\ UNCHANGED <<epVars, prVars>>

\* make_call(...).status_code != 200: make_call returns response.json(), a
\* dict, which has no attribute status_code.
CpAfterAppend(o) == "AttributeError"

CpBody(sq, i) == [uris |-> Slice(sq, i), position |-> i * AddLimit]

CpLoop ==
    /\ pc = "cp_loop"
    /\ IF chunk < CeilDiv(Len(songs), AddLimit)
       THEN \E o \in Outcomes :
              /\ fails' = fails + Failed(o)
              /\ reqs' = Append(reqs, [kind |-> "add", id |-> plId,
                                       body |-> CpBody(songs, chunk),
                                       outcome |-> o, lan |-> cur])
              /\ playlists' = IF o = "ok"
                              THEN AddTracks(playlists, plId, CpBody(songs, chunk))
                              ELSE playlists
              /\ LET after == IF o = "raise" THEN "UnboundLocalError"
                              ELSE CpAfterAppend(o)
                 IN  IF after = "next"
                     THEN pc' = "cp_loop" /\ chunk' = chunk + 1
                          /\ UNCHANGED <<err, ret>>
                     ELSE IF after = "false"
                     THEN /\ pc' = MutCaller
                          /\ ret' = IF pc' = "returned" THEN "False" ELSE ret
                          /\ UNCHANGED <<err, chunk>>
                     ELSE /\ pc' = "raised"
                          /\ err' = after
                          /\ UNCHANGED <<ret, chunk>>
       ELSE /\ pc' = MutCaller
            /\ ret' = IF pc' = "returned" THEN "True" ELSE ret
            /\ UNCHANGED <<err, fails, playlists, chunk, reqs>>
    /\ UNCHANGED <<mode, saved, lookup, grVars, plName, plId, songs, enVars>>
    /\ UNCHANGED <<epVars, prVars>>

\* ----------------------------------------------------- authorize, process
\* handler.authorize(code): the token exchange is inside a try whose handler
\* returns None, and process() then returns False.
\* if not handler.authorize(code): return False
AuthFailureIgnored == "p_userid"
AuthFailurePc == "returned"

PAuthorize ==
    /\ pc = "p_auth"
    /\ \E o \in Outcomes :
        /\ fails' = fails + Failed(o)
        /\ IF o = "ok"
           THEN pc' = "p_userid" /\ ret' = ret
           ELSE pc' = AuthFailurePc /\ ret' = "False"
    /\ UNCHANGED <<mode, err, remoteVars, grVars, mutVars, enVars, epVars,
                   prVars, reqs>>

\* self.user_id = self.get_user_id(), outside the try; then process() calls
\* get_songs_and_lan, which starts with get_resource("me/tracks").
PUserId ==
    /\ pc = "p_userid"
    /\ \E o \in Outcomes :
        /\ fails' = fails + Failed(o)
        /\ IF o = "ok"
           THEN pc' = "gr_total" /\ err' = err
           ELSE pc' = "raised" /\ err' = Exc(o)
    /\ endpoint' = "tracks"
    /\ pageReqs' = <<>>
    /\ UNCHANGED <<mode, ret, remoteVars, total, page, items, mutVars, enVars,
                   epVars, prVars, reqs>>

\* {lan: [] for lan in set(song.lan ...)} filled in the order of all_songs.
GroupKeepsLast(tr, ln) ==
    [l \in Range(ln) |->
        <<tr[CHOOSE k \in 1 .. Len(ln) :
                ln[k] = l /\ \A j \in k + 1 .. Len(ln) : ln[j] # l]>>]
GroupByLabel(tr, ln) ==
    [l \in Range(ln) |->
        LET Has(k) == ln[k] = l
            ks == SelectSeq([k \in 1 .. Len(tr) |-> k], Has)
        IN  [j \in 1 .. Len(ks) |-> tr[ks[j]]]]

\* The grouping, then get_playlists, which starts with get_resource.
PGroup ==
    /\ pc = "p_group"
    /\ lan_songs_dict' = GroupByLabel(tracks, lan)
    /\ endpoint' = "playlists"
    /\ pageReqs' = <<>>
    /\ pc' = "gr_total"
    /\ UNCHANGED <<mode, err, fails, ret, remoteVars, total, page, items,
                   mutVars, enVars, epVars, playlist_names, todo, cur, reqs>>

\* {playlist.name: playlist.playlist_id for playlist in playlists}: of two
\* fetched playlists with one name the later one stays.
NamesToFirstId(its) ==
    [n \in {playlists[i].name : i \in Range(its)} |-> its[1]]
NamesToIds(its) ==
    [n \in {playlists[i].name : i \in Range(its)} |->
        its[CHOOSE k \in 1 .. Len(its) :
               /\ playlists[its[k]].name = n
               /\ \A j \in k + 1 .. Len(its) : playlists[its[j]].name # n]]

GetPlaylists ==
    /\ pc = "gp_build"
    /\ playlist_names' = NamesToIds(items)
    /\ todo' = DOMAIN lan_songs_dict
    /\ pc' = "p_loop"
    /\ UNCHANGED <<mode, err, fails, ret, remoteVars, grVars, mutVars, enVars,
                   epVars, lan_songs_dict, cur, reqs>>

\* The branch of the reconcile loop for label l.
BranchAlwaysCreate(l) == "cp_create"
Branch(l) == IF l \in DOMAIN playlist_names THEN "ep_total" ELSE "cp_create"

\* for lan in lan_songs_dict.keys(): the keys come from a set, in any order.
PLoop ==
    /\ pc = "p_loop"
    /\ IF todo = {}
       THEN /\ pc' = "returned"
            /\ ret' = "None"
            /\ UNCHANGED <<mutVars, todo, cur>>
       ELSE \E l \in todo :
              /\ todo' = todo \ {l}
              /\ cur' = l
              /\ songs' = lan_songs_dict[l]
              /\ chunk' = 0
              /\ pc' = Branch(l)
              /\ IF pc' = "ep_total"
                 THEN plId' = playlist_names[l] /\ plName' = plName
                 ELSE plId' = 0 /\ plName' = l
              /\ ret' = ret
    /\ UNCHANGED <<mode, err, fails, remoteVars, grVars, enVars, epVars,
                   lan_songs_dict, playlist_names, reqs>>

\* ------------------------------------------- specification: get_resource
InitFetch ==
    /\ mode = "get_resource"
    /\ pc = "gr_total"
    /\ err = "none"
    /\ fails = 0
    /\ saved \in 0 .. MaxTotal
    /\ playlists = <<>>
    /\ endpoint = "tracks"
    /\ total = 0
    /\ page = 0
    /\ items = <<>>
    /\ pageReqs = <<>>
    /\ plName = "none"
    /\ plId = 0
    /\ songs = <<>>
    /\ chunk = 0
    /\ lookup = <<>>
    /\ tracks = <<>>
    /\ lan = <<>>
    /\ futs = <<>>
    /\ col = 0
    /\ iters = 0
    /\ fetched = <<>>
    /\ epTotal = -1
    /\ epGets = <<>>
    /\ lan_songs_dict = <<>>
    /\ playlist_names = <<>>
    /\ todo = {}
    /\ cur = "none"
    /\ reqs = <<>>
    /\ ret = "none"

NextFetch == GrTotal \/ GrPage \/ GrReturn

SpecFetch == InitFetch /\ [][NextFetch]_vars

\* ------------------- specification: update_playlist and create_playlist
\* The playlists the account holds before the call.
PriorPlaylists ==
    { <<[name |-> "en", members |-> <<>>]>>,
      <<[name |-> "en", members |-> <<0>>]>> }

InitMut ==
    /\ mode \in {"update_playlist", "create_playlist"}
    /\ pc = IF mode = "update_playlist" THEN "up_loop" ELSE "cp_create"
    /\ err = "none"
    /\ fails = 0
    /\ ret = "none"
    /\ saved = 0
    /\ playlists \in PriorPlaylists
    /\ endpoint = "none"
    /\ total = 0
    /\ page = 0
    /\ items = <<>>
    /\ pageReqs = <<>>
    /\ plName = IF mode = "update_playlist" THEN "none" ELSE "pl"
    /\ plId = IF mode = "update_playlist" THEN 1 ELSE 0
    /\ \E n \in 0 .. MaxUris : songs = [k \in 1 .. n |-> k]
    /\ chunk = 0
    /\ lookup = <<>>
    /\ tracks = <<>>
    /\ lan = <<>>
    /\ futs = <<>>
    /\ col = 0
    /\ iters = 0
    /\ fetched = <<>>
    /\ epTotal = -1
    /\ epGets = <<>>
    /\ lan_songs_dict = <<>>
    /\ playlist_names = <<>>
    /\ todo = {}
    /\ cur = "none"
    /\ reqs = <<>>

NextMut == UpLoop \/ CpCreate \/ CpLoop

SpecMut == InitMut /\ [][NextMut]_vars

\* ------------------------------------ specification: get_songs_and_lan
InitEnrich ==
    /\ mode = "get_songs_and_lan"
    /\ pc = "gr_total"
    /\ err = "none"
    /\ fails = 0
    /\ ret = "none"
    /\ saved \in 0 .. MaxTracks
    /\ lookup \in [1 .. saved -> LookupOutcomes]
    /\ playlists = <<>>
    /\ endpoint = "tracks"
    /\ total = 0
    /\ page = 0
    /\ items = <<>>
    /\ pageReqs = <<>>
    /\ plName = "none"
    /\ plId = 0
    /\ songs = <<>>
    /\ chunk = 0
    /\ tracks = <<>>
    /\ lan = <<>>
    /\ futs = <<>>
    /\ col = 0
    /\ iters = 0
    /\ fetched = <<>>
    /\ epTotal = -1
    /\ epGets = <<>>
    /\ lan_songs_dict = <<>>
    /\ playlist_names = <<>>
    /\ todo = {}
    /\ cur = "none"
    /\ reqs = <<>>

NextEnrich ==
    \/ GrTotal \/ GrPage \/ GrReturn \/ GetSongs
    \/ EnSubmit \/ WorkerStart \/ WorkerFinish \/ SessionExit
    \/ EnCollect \/ EnReturn

SpecEnrich == InitEnrich /\ [][NextEnrich]_vars

\* ------------------ specification: get_songs_and_lan, the pool of lookups
\* More tracks than workers, every lookup answered.
PoolLookups == {"en", "pl", "nohits"}

InitPool ==
    /\ mode = "get_songs_and_lan"
    /\ pc = "gr_total"
    /\ err = "none"
    /\ fails = 0
    /\ ret = "none"
    /\ saved \in 0 .. MaxPoolTracks
    /\ lookup \in [1 .. saved -> PoolLookups]
    /\ playlists = <<>>
    /\ endpoint = "tracks"
    /\ total = 0
    /\ page = 0
    /\ items = <<>>
    /\ pageReqs = <<>>
    /\ plName = "none"
    /\ plId = 0
    /\ songs = <<>>
    /\ chunk = 0
    /\ tracks = <<>>
    /\ lan = <<>>
    /\ futs = <<>>
    /\ col = 0
    /\ iters = 0
    /\ fetched = <<>>
    /\ epTotal = -1
    /\ epGets = <<>>
    /\ lan_songs_dict = <<>>
    /\ playlist_names = <<>>
    /\ todo = {}
    /\ cur = "none"
    /\ reqs = <<>>

SpecPool == InitPool /\ [][NextEnrich]_vars

\* ------------------------------------------ specification: empty_playlist
\* The members of the playlist at entry: t distinct URIs, or t entries that
\* repeat two URIs.
MemberWorlds ==
    {[k \in 1 .. t |-> k] : t \in 0 .. MaxMembers}
        \cup {[k \in 1 .. t |-> 1 + (k % 2)] : t \in 0 .. MaxMembers}

InitEmpty ==
    /\ mode = "empty_playlist"
    /\ pc = "ep_total"
    /\ err = "none"
    /\ fails = 0
    /\ ret = "none"
    /\ saved = 0
    /\ lookup = <<>>
    /\ \E m \in MemberWorlds : playlists = <<[name |-> "en", members |-> m]>>
    /\ endpoint = "none"
    /\ total = 0
    /\ page = 0
    /\ items = <<>>
    /\ pageReqs = <<>>
    /\ plName = "none"
    /\ plId = 1
    /\ songs = <<>>
    /\ chunk = 0
    /\ tracks = <<>>
    /\ lan = <<>>
    /\ futs = <<>>
    /\ col = 0
    /\ iters = 0
    /\ fetched = <<>>
    /\ epTotal = -1
    /\ epGets = <<>>
    /\ lan_songs_dict = <<>>
    /\ playlist_names = <<>>
    /\ todo = {}
    /\ cur = "none"
    /\ reqs = <<>>

NextEmpty == EpTotal \/ EpLoop \/ EpDelete

SpecEmpty == InitEmpty /\ [][NextEmpty]_vars

\* ------------------------------------------------ specification: process
\* The playlists the account holds before the run.
PlaylistWorlds ==
    { <<>>,
      <<[name |-> "en", members |-> <<1, 9>>]>>,
      <<[name |-> "unidentified", members |-> <<>>],
        [name |-> "rock", members |-> <<7, 7>>]>>,
      <<[name |-> "pl", members |-> <<8>>],
        [name |-> "pl", members |-> <<2>>]>>,
      <<[name |-> "rock", members |-> <<9>>],
        [name |-> "en", members |-> <<1, 9>>],
        [name |-> "pl", members |-> <<>>]>>,
      [k \in 1 .. MaxFillers |-> [name |-> "other", members |-> <<>>]]
          \o <<[name |-> "en", members |-> <<9>>]>> }

\* The answers of the lyrics service considered in a run of process().
ProcessLookups == {"en", "pl", "nohits", "neterr"}

Init ==
    /\ mode = "process"
    /\ pc = "p_auth"
    /\ err = "none"
    /\ fails = 0
    /\ ret = "none"
    /\ saved \in 0 .. MaxTracks
    /\ lookup \in [1 .. saved -> ProcessLookups]
    /\ playlists \in PlaylistWorlds
    /\ endpoint = "none"
    /\ total = 0
    /\ page = 0
    /\ items = <<>>
    /\ pageReqs = <<>>
    /\ plName = "none"
    /\ plId = 0
    /\ songs = <<>>
    /\ chunk = 0
    /\ tracks = <<>>
    /\ lan = <<>>
    /\ futs = <<>>
    /\ col = 0
    /\ iters = 0
    /\ fetched = <<>>
    /\ epTotal = -1
    /\ epGets = <<>>
    /\ lan_songs_dict = <<>>
    /\ playlist_names = <<>>
    /\ todo = {}
    /\ cur = "none"
    /\ reqs = <<>>

Next ==
    \/ PAuthorize \/ PUserId
    \/ GrTotal \/ GrPage \/ GrReturn \/ GetSongs
    \/ EnSubmit \/ WorkerStart \/ WorkerFinish \/ SessionExit
    \/ EnCollect \/ EnReturn
    \/ PGroup \/ GetPlaylists \/ PLoop
    \/ EpTotal \/ EpLoop \/ EpDelete
    \/ UpLoop \/ CpCreate \/ CpLoop

Spec == Init /\ [][Next]_vars

\* ------------------------------------------------- claims: get_resource
\* The integer nearest to n/d, the even one of the two when n/d lies halfway.
NearestEven(n, d) ==
    CHOOSE c \in 0 .. n + 1 :
        LET gap == IF 2 * n >= 2 * d * c THEN 2 * n - 2 * d * c
                   ELSE 2 * d * c - 2 * n
        IN  gap < d \/ (gap = d /\ c % 2 = 0)

RECURSIVE OkItems(_, _)
\* The items of the successful requests among rs, in issue order.
OkItems(rs, n) ==
    IF rs = <<>> THEN <<>>
    ELSE (IF Head(rs).outcome = "ok"
          THEN RemotePage(n, Head(rs).offset, Head(rs).limit)
          ELSE <<>>) \o OkItems(Tail(rs), n)

FetchReturned == mode = "get_resource" /\ pc = "returned"

\* C7: when no request fails, get_resource returns every remote item exactly
\* once, whatever the total (also a total that is no multiple of 50).
C7_FetchComplete ==
    (FetchReturned /\ fails = 0) => items = [k \in 1 .. saved |-> k]

\* C8: after the initial request get_resource issues exactly
\* max(1, round(N/50)) page requests, the k-th (from 0) with offset 50*k and
\* limit 50; a total of 120 gives 2 page requests.
C8_PageRequests ==
    /\ \A k \in 1 .. Len(pageReqs) :
          pageReqs[k].offset = 50 * (k - 1) /\ pageReqs[k].limit = 50
    /\ FetchReturned => Len(pageReqs) = Max(1, NearestEven(total, 50))
    /\ (FetchReturned /\ total = 120) => Len(pageReqs) = 2

C8_Witness ==
    FetchReturned /\ total = 125 /\ Len(pageReqs) = 2 /\ fails = 0

\* C9: a failing page request neither aborts get_resource nor is retried: all
\* the page requests are still issued, each offset once, and the result is the
\* concatenation, in page order, of the items of the pages that succeeded.
C9_FailedPagesSkipped ==
    /\ (mode = "get_resource" /\ pc = "raised") => pageReqs = <<>>
    /\ \A j, k \in 1 .. Len(pageReqs) :
          j < k => pageReqs[j].offset < pageReqs[k].offset
    /\ FetchReturned =>
          /\ Len(pageReqs) = PageCount(total)
          /\ items = OkItems(pageReqs, saved)

C9_Witness ==
    /\ FetchReturned
    /\ Len(pageReqs) = 3
    /\ pageReqs[1].outcome = "raise"
    /\ pageReqs[2].outcome = "ok"
    /\ pageReqs[3].outcome = "status"
    /\ items = [k \in 1 .. 50 |-> 50 + k]

\* ---------------------------- claims: update_playlist and create_playlist
\* The least k with k * c >= n.
CeilOf(n, c) == CHOOSE k \in 0 .. n : k * c >= n /\ (k = 0 \/ (k - 1) * c < n)

RECURSIVE ConcatUris(_)
\* The URIs the requests rs carry, in issue order.
ConcatUris(rs) ==
    IF rs = <<>> THEN <<>> ELSE Head(rs).body.uris \o ConcatUris(Tail(rs))

Terminal == pc \in {"returned", "raised"}

\* The chunking of songs into add requests: ceil(len/90) of them to playlist
\* id, the i-th carrying songs[90*i : 90*(i+1)].
ChunkedExactly(rs, id) ==
    /\ Len(rs) = CeilOf(Len(songs), 90)
    /\ \A k \in 1 .. Len(rs) :
          /\ rs[k].kind = "add" /\ rs[k].id = id
          /\ Len(rs[k].body.uris) <= 90
          /\ rs[k].body.uris =
                 SubSeq(songs, 90 * (k - 1) + 1, Min(Len(songs), 90 * k))
    /\ ConcatUris(rs) = songs

\* C3: when the creation request yields an id and every append succeeds,
\* create_playlist issues ceil(len(uris)/90) append requests, the i-th with
\* uris[90*i : 90*(i+1)] and position 90*i, returns True and leaves the new
\* playlist's members equal to uris.
C3_CreatePopulates ==
    (mode = "create_playlist" /\ Terminal /\ fails = 0) =>
        /\ ret = "True"
        /\ ChunkedExactly(Tail(reqs), plId)
        /\ \A k \in 2 .. Len(reqs) : reqs[k].body.position = 90 * (k - 2)
        /\ playlists[plId].members = songs

\* C4: create_playlist returns False, and issues no further request, once the
\* creation call yields no id or an append chunk returns a non-success status;
\* it returns the value False rather than raising.
C4_CreateReturnsFalse ==
    mode = "create_playlist" =>
        /\ \A k \in 1 .. Len(reqs) - 1 : reqs[k].outcome = "ok"
        /\ (Terminal /\ reqs # <<>> /\ reqs[Len(reqs)].outcome = "status") =>
               pc = "returned" /\ ret = "False"

\* C10: for every sequence U, update_playlist issues exactly ceil(len(U)/90)
\* append requests, each with at most 90 URIs and no position field, whose
\* concatenation is U; the last chunk has len(U) mod 90 items (90 for a positive
\* multiple of 90), an empty U issues none, 215 URIs give chunks of 90, 90, 35.
C10_UpdateChunks ==
    (mode = "update_playlist" /\ Terminal) =>
        /\ ChunkedExactly(reqs, plId)
        /\ \A k \in 1 .. Len(reqs) : "position" \notin DOMAIN reqs[k].body
        /\ Len(songs) > 0 =>
              Len(reqs[Len(reqs)].body.uris) =
                  (IF Len(songs) % 90 = 0 THEN 90 ELSE Len(songs) % 90)
        /\ Len(songs) = 0 => reqs = <<>>
        /\ Len(songs) = 215 =>
              <<Len(reqs[1].body.uris), Len(reqs[2].body.uris),
                Len(reqs[3].body.uris)>> = <<90, 90, 35>>

\* Where update_playlist returns, which it does unless make_call raised, the
\* requests it issued are the chunks of songs.
UpdateChunksOnReturn ==
    (mode = "update_playlist" /\ pc = "returned") => C10_UpdateChunks

\* ----------------------------------------------- claims: get_songs_and_lan
\* C6: after get_songs_and_lan every returned track has a non-empty label,
\* which is "unidentified" whenever its lookup had no hits, a null or missing
\* language, a malformed response or a network error; an enrichment failure
\* never aborts the stage.
C6_EveryTrackLabelled ==
    (mode = "get_songs_and_lan" /\ Terminal /\ fails = 0) =>
        /\ pc = "returned"
        /\ \A k \in 1 .. Len(tracks) :
              /\ lan[k] \notin {"", "None"}
              /\ lookup[tracks[k]] \notin Languages => lan[k] = "unidentified"

\* ----------------------------------------------------------- claims: process
\* The URIs of the fetched tracks labelled l, in fetch order.
UrisLabelled(l) ==
    LET Labelled(u) == \E k \in 1 .. Len(tracks) : tracks[k] = u /\ lan[k] = l
    IN  SelectSeq(tracks, Labelled)

\* No request of the run failed: none of the account's API, no lookup.
AllRequestsSucceeded ==
    /\ fails = 0
    /\ \A u \in 1 .. saved : lookup[u] \notin {"neterr", "badjson"}

\* C1: after a run of process() in which every request succeeds, every label
\* observed among the enriched tracks has a remote playlist of that name whose
\* members are exactly the URIs of the tracks with that label, in fetch order,
\* whether the playlist was reused or had to be created.
C1_PlaylistPerLabel ==
    (mode = "process" /\ Terminal /\ AllRequestsSucceeded) =>
        \A l \in Range(lan) :
            \E id \in 1 .. Len(playlists) :
                /\ playlists[id].name = l
                /\ playlists[id].members = UrisLabelled(l)

\* C2: no exception ever propagates out of process() to its caller, whatever
\* requests fail.
C2_NoExceptionEscapes ==
    mode = "process" => (pc # "raised" /\ err = "none")

\* The failures of the run are non-success statuses of mutation requests only.
OnlyMutationStatusFailures ==
    /\ \E k \in 1 .. Len(reqs) : reqs[k].outcome = "status"
    /\ fails = Cardinality({k \in 1 .. Len(reqs) : reqs[k].outcome = "status"})
    /\ \A u \in 1 .. saved : lookup[u] \notin {"neterr", "badjson"}

\* C5: a non-success status on add, remove or create while reconciling one
\* label does not stop the run: every remaining label is still processed, so
\* the run ends with no label of the grouping left.
C5_MutationFailureContinues ==
    (mode = "process" /\ Terminal /\ OnlyMutationStatusFailures) => todo = {}

\* ------------------------------------------------- claims: empty_playlist
\* Every removal request carries exactly the URIs of the page fetched just
\* before it, at most 50 of them.
RemovalsFollowFetches ==
    /\ Len(reqs) <= Len(epGets)
    /\ Len(epGets) <= Len(reqs) + 1
    /\ \A k \in 1 .. Len(reqs) :
          /\ reqs[k].kind = "remove" /\ reqs[k].id = plId
          /\ epGets[k].outcome = "ok" /\ epGets[k].limit = 50
          /\ reqs[k].body.tracks = epGets[k].items
          /\ Len(reqs[k].body.tracks) <= 50

\* C11: for a playlist holding T members at entry, empty_playlist issues
\* exactly ceil(T/50) removal requests, each preceded by a fetch of the
\* playlist's current first page (limit 50) and carrying exactly the URIs of
\* that page, hence at most 50 URIs.
C11_RemovalRequests ==
    (mode = "empty_playlist" /\ epTotal >= 0) =>
        /\ RemovalsFollowFetches
        /\ Terminal => Len(reqs) = CeilOf(epTotal, 50)

\* Where empty_playlist returns, which it does unless a request raised, it
\* has issued ceil(T/50) removal requests, each for the page just fetched.
RemovalRequestsOnReturn ==
    (mode = "empty_playlist" /\ pc = "returned") =>
        /\ RemovalsFollowFetches
        /\ Len(reqs) = CeilOf(epTotal, 50)

\* C14: provided every request succeeds, when empty_playlist returns the
\* playlist has no members, whatever the member count at entry (0, a multiple
\* of 50, members repeating one URI).
C14_PlaylistEmptied ==
    (mode = "empty_playlist" /\ pc = "returned" /\ fails = 0) =>
        playlists[plId].members = <<>>

C14_Witness ==
    /\ mode = "empty_playlist" /\ pc = "returned" /\ fails = 0
    /\ epTotal = 101
    /\ Len(reqs) = 3
    /\ Len(reqs[3].body.tracks) = 1
    /\ playlists[plId].members = <<>>

\* ------------------------------------------------ claims: process, part 2
\* C12: if the token exchange fails, the run aborts before any mutation: no
\* create, append or removal request is ever issued in that run, and no track
\* or playlist fetch either.
C12_TokenFailureAborts ==
    [][ /\ (mode = "process" /\ pc = "p_auth" /\ fails' > fails) =>
              /\ pc' = "returned" /\ ret' = "False"
              /\ reqs' = <<>> /\ pageReqs' = <<>> /\ epGets' = <<>>
              /\ endpoint' = "none" /\ tracks' = <<>>
        /\ (mode = "process" /\ ret = "False") => UNCHANGED vars ]_vars

C12_Witness ==
    /\ mode = "process" /\ pc = "returned" /\ ret = "False" /\ fails = 1
    /\ saved > 0 /\ playlists # <<>>

\* The grouping has been built.
Grouped == mode = "process" /\ endpoint = "playlists"

\* How many times u occurs in sq.
Occurrences(sq, u) == Cardinality({k \in 1 .. Len(sq) : sq[k] = u})

RECURSIVE SumOver(_, _)
\* Occurrences of u over all the groups of the labels ls.
SumOver(ls, u) ==
    IF ls = {} THEN 0
    ELSE LET l == CHOOSE x \in ls : TRUE
         IN  Occurrences(lan_songs_dict[l], u) + SumOver(ls \ {l}, u)

\* C13: grouping loses and duplicates nothing: the keys are the distinct labels
\* observed ("unidentified" included), each label's sequence is the fetched
\* tracks with that label in fetch order, and flattening the groups gives the
\* multiset of the URIs of all fetched tracks.
C13_GroupingPartition ==
    Grouped =>
        /\ DOMAIN lan_songs_dict = {lan[k] : k \in 1 .. Len(lan)}
        /\ \A l \in DOMAIN lan_songs_dict : lan_songs_dict[l] = UrisLabelled(l)
        /\ \A u \in Range(tracks) :
              SumOver(DOMAIN lan_songs_dict, u) = Occurrences(tracks, u)
        /\ \A l \in DOMAIN lan_songs_dict :
              Range(lan_songs_dict[l]) \subseteq Range(tracks)

C13_Witness ==
    /\ Grouped
    /\ DOMAIN lan_songs_dict = {"en", "unidentified"}
    /\ lan_songs_dict["en"] = <<1, 3>>
    /\ lan_songs_dict["unidentified"] = <<2>>

\* ------------------------------------- claims: get_songs_and_lan, the pool
\* The label a lookup answer stands for.
AnswerLabel(r) == IF r \in {"en", "pl"} THEN r ELSE "unidentified"

\* C15: for every completion order of the concurrent lookups, each track ends
\* with the label derived from the response to the lookup submitted for that
\* same track: no interleaving attributes one track's result to another.
C15_LabelsOwnLookup ==
    mode = "get_songs_and_lan" =>
        /\ \A k \in 1 .. Len(futs) :
              futs[k].st = "done" => futs[k].resp = lookup[tracks[k]]
        /\ \A k \in 1 .. col : lan[k] = AnswerLabel(lookup[tracks[k]])
        /\ pc = "returned" => col = Len(tracks)

\* The third lookup has completed before the first two, with another answer.
C15_Witness ==
    /\ mode = "get_songs_and_lan" /\ pc = "en_submit"
    /\ Len(futs) = 4
    /\ futs[1].st = "running" /\ futs[2].st = "running"
    /\ futs[3].st = "done" /\ futs[3].resp = "nohits"
    /\ lookup[tracks[1]] = "en" /\ lookup[tracks[2]] = "pl"

\* C16: during enrichment exactly one lookup is submitted per track, at most 3
\* lookups are in flight at any time, and no result is read until every lookup
\* has been dispatched.
C16_FanOutFanIn ==
    mode = "get_songs_and_lan" =>
        /\ Len(futs) <= Len(tracks)
        /\ Cardinality({k \in 1 .. Len(futs) : futs[k].st = "running"}) <= 3
        /\ (pc \in {"en_collect", "returned"} \/ col > 0) =>
              /\ Len(futs) = Len(tracks)
              /\ \A k \in 1 .. Len(futs) : futs[k].st = "done"

\* Three lookups in flight, the fourth waiting for a worker.
C16_Witness ==
    /\ mode = "get_songs_and_lan"
    /\ Len(futs) = 4
    /\ \A k \in 1 .. 3 : futs[k].st = "running"
    /\ futs[4].st = "queued"

\* The requests of the log that carry kind kd for label l.
RequestsOf(log, kd, l) ==
    {k \in 1 .. Len(log) : log[k].kind = kd /\ log[k].lan = l}

\* The order of the mutation requests of one run: a removal never follows an
\* append to the same playlist, an append addresses a playlist that carries
\* its label's name, and a label with a create request has exactly one, issued
\* before each of its appends and never next to a removal.
ReconcileOrder(log, pls) ==
    /\ \A j \in 1 .. Len(log), k \in 1 .. Len(log) :
          (j < k /\ log[j].kind = "add" /\ log[k].kind = "remove")
              => log[j].id # log[k].id
    /\ \A k \in 1 .. Len(log) :
          log[k].kind = "add" =>
              /\ log[k].id \in 1 .. Len(pls)
              /\ pls[log[k].id].name = log[k].lan
              /\ LET made == RequestsOf(log, "create", log[k].lan)
                 IN  \/ made = {}
                     \/ /\ Cardinality(made) = 1
                        /\ \A j \in made : j < k /\ log[j].outcome = "ok"
                        /\ RequestsOf(log, "remove", log[k].lan) = {}

\* C17: the reconcile loop takes the reuse branch for a label exactly when a
\* fetched playlist carries the label's name; on that branch every removal
\* precedes the first append, and on the create branch exactly one create
\* request precedes the appends to the new playlist.
C17_BranchAndOrder ==
    [][ /\ (pc = "p_loop" /\ pc' \notin {"p_loop", "returned"}) =>
              /\ pc' \in {"ep_total", "cp_create"}
              /\ (pc' = "ep_total")
                    <=> (\E i \in Range(items) : playlists[i].name = cur')
              /\ pc' = "ep_total" =>
                    /\ plId' \in Range(items)
                    /\ playlists[plId'].name = cur'
        /\ mode = "process" => ReconcileOrder(reqs', playlists')
      ]_vars

\* One run has reused a playlist (removal, then append) and created another
\* (create, then append).
C17_Witness ==
    /\ mode = "process"
    /\ \E j \in 1 .. Len(reqs), k \in 1 .. Len(reqs) :
          /\ j < k
          /\ reqs[j].kind = "remove" /\ reqs[k].kind = "add"
          /\ reqs[j].id = reqs[k].id
          /\ reqs[j].outcome = "ok" /\ reqs[k].outcome = "ok"
    /\ \E j \in 1 .. Len(reqs), k \in 1 .. Len(reqs) :
          /\ j < k
          /\ reqs[j].kind = "create" /\ reqs[k].kind = "add"
          /\ reqs[j].lan = reqs[k].lan

\* The positions of process() at which a request that changes the account is
\* about to be issued.
Mutating == pc \in {"ep_loop", "ep_delete", "up_loop", "cp_create", "cp_loop"}

\* The requests of the log that address a playlist by its id.
Addressed(log) == {k \in 1 .. Len(log) : log[k].kind \in {"add", "remove"}}

\* No lookup is pending once mutation has begun, and no playlist id is
\* addressed on behalf of two labels.
LookupsOverAndDisjoint ==
    /\ (Mutating \/ reqs # <<>>) =>
          /\ Len(futs) = Len(tracks)
          /\ \A k \in 1 .. Len(futs) : futs[k].st = "done"
    /\ \A j \in Addressed(reqs), k \in Addressed(reqs) :
          reqs[j].id = reqs[k].id => reqs[j].lan = reqs[k].lan

\* C18: the mutation requests of a run are issued one after another by the
\* single thread of process() (a step issues at most one, and no lyrics lookup
\* is pending by then), and two distinct labels never address the same
\* playlist id.
C18_SequentialDisjoint ==
    [][ mode = "process" =>
            /\ LookupsOverAndDisjoint'
            /\ Len(reqs') \in {Len(reqs), Len(reqs) + 1}
      ]_vars

\* Two labels have each changed a playlist of their own.
C18_Witness ==
    /\ mode = "process"
    /\ \E j \in Addressed(reqs), k \in Addressed(reqs) :
          /\ reqs[j].lan # reqs[k].lan
          /\ reqs[j].id # reqs[k].id
          /\ reqs[j].outcome = "ok" /\ reqs[k].outcome = "ok"

\* The number of playlists the account held before the run: every accepted
\* create request has added one.
InitialCount ==
    Len(playlists)
        - Cardinality({k \in 1 .. Len(reqs) :
                          reqs[k].kind = "create" /\ reqs[k].outcome = "ok"})

\* No playlist created by the run carries the name of a playlist that
\* existed before the run.
NoDuplicateCreated ==
    \A j \in InitialCount + 1 .. Len(playlists), i \in 1 .. InitialCount :
        playlists[j].name # playlists[i].name

\* C19: a run never creates a playlist whose name is already the name of a
\* playlist of the account, whatever the number of existing playlists; stated
\* here for the runs in which no request has failed.
C19_NoDuplicateName ==
    (mode = "process" /\ fails = 0) => NoDuplicateCreated

\* C19, with failed requests: the same, whichever playlist pages were skipped.
C19_NoDuplicateNameAnyRun ==
    mode = "process" => NoDuplicateCreated

\* The labels observed on the saved tracks of the run.
ObservedLabels == Range(lan)

\* C20: a step of a run deletes no playlist and renames none, leaves every
\* playlist whose name is not an observed label as it was, and addresses its
\* append or removal request to a playlist named by an observed label.
C20_ForeignPlaylistsUntouched ==
    [][ mode = "process" =>
            /\ Len(playlists') >= Len(playlists)
            /\ \A i \in 1 .. Len(playlists) :
                  /\ playlists'[i].name = playlists[i].name
                  /\ playlists[i].name \notin ObservedLabels
                        => playlists'[i] = playlists[i]
            /\ \A i \in Len(playlists) + 1 .. Len(playlists') :
                  playlists'[i].name \in ObservedLabels
            /\ \A k \in Addressed(reqs') :
                  /\ reqs'[k].id \in 1 .. Len(playlists')
                  /\ playlists'[reqs'[k].id].name \in ObservedLabels
      ]_vars

\* The playlist of an observed label has been emptied, next to a playlist of
\* another name that holds one of the removed URIs and still has its members.
C20_Witness ==
    /\ mode = "process"
    /\ Len(playlists) >= 2
    /\ playlists[1] = [name |-> "rock", members |-> <<9>>]
    /\ "rock" \notin ObservedLabels
    /\ playlists[2].name \in ObservedLabels
    /\ playlists[2].members = <<>>
    /\ \E k \in Addressed(reqs) :
          /\ reqs[k].kind = "remove" /\ reqs[k].id = 2
          /\ reqs[k].outcome = "ok"

====
